---- MODULE Spec2Model ----
(***************************************************************************)
(* The triple-repeat encoder (src/encode.c) and the majority-vote decoder  *)
(* (src/decode.c): two character devices, each with a scratch buffer temp, *)
(* a result buffer message and a length messageSize, written by dev_write  *)
(* and handed out by dev_read.                                             *)
(*                                                                         *)
(* Bytes are 0..255 (the low eight bits of a C char).  User buffers are    *)
(* sequences; the len argument of dev_write is the length of the sequence. *)
(* copy_from_user is taken to succeed (its result is ignored by the code); *)
(* copy_to_user may fail.  The len argument of dev_read is ignored by the  *)
(* code and is not modelled.                                               *)
(***************************************************************************)
EXTENDS Integers, Sequences, FiniteSets, TLC

VARIABLES
    enc_temp,          \* encode.c: static char temp[256]
    enc_message,       \* encode.c: static char message[769]
    enc_messageSize,   \* encode.c: static short messageSize
    dec_temp,          \* decode.c: static char temp[IN_BUFF_SIZE]
    dec_message,       \* decode.c: static char message[256]
    dec_messageSize,   \* decode.c: static short messageSize
    encW,              \* observation: the last dev_write call on the encoder
    encR,              \* observation: the last dev_read call on the encoder
    decW,              \* observation: the last dev_write call on the decoder
    decR,              \* observation: the last dev_read call on the decoder
                       \* (encR and decR start afresh at each write)
    loaded,            \* which of the two kernel modules this run has loaded
    pc,                \* position of each concurrent caller inside its handler
    loc,               \* the locals of each concurrent caller
    overlap            \* observation: a call has begun while another was running

conc == <<loaded, pc, loc, overlap>>
vars == <<enc_temp, enc_message, enc_messageSize,
          dec_temp, dec_message, dec_messageSize,
          encW, encR, decW, decR, loaded, pc, loc, overlap>>

(***************************************************************************)
(* Program constants.                                                      *)
(***************************************************************************)
ENC_TEMP_SIZE == 256
ENC_MESSAGE_SIZE == 769
IN_BUFF_SIZE == 769
DEC_MESSAGE_SIZE == 256
EFAULT == 14

(***************************************************************************)
(* Bounds of the model.                                                    *)
(***************************************************************************)
MaxPayload == 2     \* longest short payload, in bytes
MaxLink == 2        \* longest payload sent over the link, in bytes
MaxConc == 2        \* longest payload written by a concurrent caller, in bytes

(***************************************************************************)
(* Bit operations on bytes, as C computes them on the low eight bits.      *)
(***************************************************************************)
RECURSIVE BitAnd(_, _)
BitAnd(x, y) ==
    IF x = 0 \/ y = 0 THEN 0
    ELSE (x % 2) * (y % 2) + 2 * BitAnd(x \div 2, y \div 2)

RECURSIVE BitOr(_, _)
BitOr(x, y) ==
    IF x = 0 THEN y
    ELSE IF y = 0 THEN x
    ELSE (IF x % 2 = 1 \/ y % 2 = 1 THEN 1 ELSE 0) + 2 * BitOr(x \div 2, y \div 2)

BitNot(x) == 255 - x

BitXor(x, y) == x + y - 2 * BitAnd(x, y)

\* decode.c:163, the four-term expression stored into message[i/3]
Vote(first, second, third) ==
    BitOr(BitOr(BitOr(BitAnd(BitAnd(first, second), third),
                      BitAnd(BitAnd(BitNot(first), second), third)),
                BitAnd(BitAnd(first, BitNot(second)), third)),
          BitAnd(BitAnd(first, second), BitNot(third)))

\* the bit-parallel majority (a&b)|(b&c)|(a&c) the specification names
Majority(a, b, c) == BitOr(BitOr(BitAnd(a, b), BitAnd(b, c)), BitAnd(a, c))

(***************************************************************************)
(* Buffers.  A C array is held as the sequence of its bytes up to the last *)
(* nonzero one; every byte past the end of the sequence, up to the array's *)
(* declared size, is zero (static storage starts zeroed).  At(a, k) is the *)
(* C expression a[k].                                                      *)
(***************************************************************************)
Min(a, b) == IF a < b THEN a ELSE b
Max(a, b) == IF a > b THEN a ELSE b

At(a, k) == IF k < Len(a) THEN a[k + 1] ELSE 0

\* the position (from 1) of the last nonzero byte of a within lo..hi, or 0;
\* the range is halved so that long buffers do not nest deeply
RECURSIVE LastUsed(_, _, _)
LastUsed(a, lo, hi) ==
    IF lo > hi THEN 0
    ELSE IF lo = hi THEN (IF a[lo] # 0 THEN lo ELSE 0)
    ELSE LET mid == (lo + hi) \div 2
             r == LastUsed(a, mid + 1, hi)
         IN  IF r # 0 THEN r ELSE LastUsed(a, lo, mid)

\* the sequence without its trailing zero bytes
Trim(a) == SubSeq(a, 1, LastUsed(a, 1, Len(a)))

\* a[k] = b
Store(a, k, b) ==
    IF b = 0 /\ k >= Len(a) THEN a
    ELSE Trim([j \in 1..Max(Len(a), k + 1) |-> IF j = k + 1 THEN b ELSE At(a, j - 1)])

\* the first n bytes of array a as a sequence: what copy_to_user hands out
Prefix(a, n) == [k \in 1..n |-> At(a, k - 1)]

Fill(b, n) == [k \in 1..n |-> b]

NoZero(s) == \A k \in 1..Len(s) : s[k] # 0

\* copy_from_user(temp, buffer, len): the first len bytes of temp replaced
CopyFromUser(temp, buf, len) ==
    [k \in 1..Max(Len(temp), len) |-> IF k <= len THEN buf[k] ELSE temp[k]]

\* temp[len-1]='\0' for len >= 1; for len = 0 the store lands outside temp
ForceTerminator(temp, len) ==
    IF len >= 1 THEN Store(temp, len - 1, 0) ELSE Trim(temp)

\* What the out-of-bounds store temp[len-1] of a zero-length write can hit:
\* nothing this model holds, or the last byte of message, which is declared
\* just before temp.
OobOutcomes == {"elsewhere", "message"}

\* the outcomes a write of buf can have: one, unless its store is out of bounds
Outcomes(buf) == IF Len(buf) = 0 THEN OobOutcomes ELSE {"elsewhere"}

OobStore(message, size, len, outcome) ==
    IF len = 0 /\ outcome = "message" THEN Store(message, size - 1, 0) ELSE message

\* encodeInit / decodeInit have run: the device of that module exists
\* the observation of a device's reads since its last write: none yet
NoRead == [done |-> FALSE, ok |-> TRUE, ret |-> 0, data |-> <<>>]

EncodeLoaded == loaded \in {"encode", "both"}
DecodeLoaded == loaded \in {"decode", "both"}

(***************************************************************************)
(* encode.c dev_write.                                                     *)
(***************************************************************************)
EncClamp(len) == IF len > ENC_TEMP_SIZE THEN ENC_TEMP_SIZE ELSE len

\* the least j in lo..hi with a[step*j] = 0, or hi + 1 when there is none:
\* where a loop that tests a[i] and advances i by step stops.  The range is
\* halved so that long buffers do not nest deeply.
RECURSIVE FirstZero(_, _, _, _)
FirstZero(a, step, lo, hi) ==
    IF lo > hi THEN hi + 1
    ELSE IF lo = hi THEN (IF At(a, step * lo) = 0 THEN lo ELSE hi + 1)
    ELSE LET mid == (lo + hi) \div 2
             l == FirstZero(a, step, lo, mid)
         IN  IF l <= mid THEN l ELSE FirstZero(a, step, mid + 1, hi)

\* while(temp[i]) i++ : the index the loop stops at.  An index of
\* ENC_TEMP_SIZE means the scan ran off the end of temp.
EncScan(temp) == FirstZero(temp, 1, 0, ENC_TEMP_SIZE - 1)

\* message after the loop and the terminator store message[3*i]='\0'
EncMessage(message, temp, i) ==
    Trim([k \in 1..Max(Len(message), 3 * i + 1) |->
            IF k - 1 < 3 * i THEN At(temp, (k - 1) \div 3)
            ELSE IF k - 1 = 3 * i THEN 0
            ELSE At(message, k - 1)])

\* messageSize=i*3+1, and the same without the byte for the terminator
EncSizeNoTerminator(i) == i * 3
EncSize(i) == i * 3 + 1

\* an index outside temp[0..255] or message[0..768] was used
EncOutOfBounds(len, i) ==
    len = 0 \/ i >= ENC_TEMP_SIZE \/ 3 * i >= ENC_MESSAGE_SIZE

enc_dev_write(buf, outcome) ==
    LET len == EncClamp(Len(buf))
        t == ForceTerminator(CopyFromUser(enc_temp, buf, len), len)
        i == EncScan(t)
        m0 == OobStore(enc_message, ENC_MESSAGE_SIZE, len, outcome)
    IN  /\ EncodeLoaded
        /\ enc_temp' = t
        /\ enc_message' = EncMessage(m0, t, i)
        /\ enc_messageSize' = EncSize(i)
        /\ encW' = [written |-> TRUE, buf |-> buf, oob |-> EncOutOfBounds(len, i),
                    left |-> EncSize(i), reads |-> 0]
        /\ encR' = NoRead
        /\ UNCHANGED <<dec_temp, dec_message, dec_messageSize, decW, decR>>
        /\ UNCHANGED conc

(***************************************************************************)
(* decode.c dev_write.                                                     *)
(***************************************************************************)
DecClamp(len) == IF len > IN_BUFF_SIZE THEN IN_BUFF_SIZE ELSE len

\* while(temp[i]) i+=3 : the index the loop stops at.  An index of
\* IN_BUFF_SIZE or more means the scan ran off the end of temp.
DecScan(temp) == 3 * FirstZero(temp, 3, 0, (IN_BUFF_SIZE - 1) \div 3)

\* message[i/3] = vote of temp[i], temp[i+1], temp[i+2] for every group read
DecMessage(message, temp, i) ==
    Trim([k \in 1..Max(Len(message), i \div 3) |->
            IF k - 1 < i \div 3
            THEN Vote(At(temp, 3 * (k - 1)), At(temp, 3 * (k - 1) + 1),
                      At(temp, 3 * (k - 1) + 2))
            ELSE At(message, k - 1)])

DecSize(i) == i \div 3

\* an index outside temp[0..768] or message[0..255] was used: the store
\* temp[-1], the loop test past the end, third=temp[i+2] of the last group,
\* or message[i/3] of the last group
DecOutOfBounds(len, i) ==
    \/ len = 0
    \/ i >= IN_BUFF_SIZE
    \/ i >= 3 /\ (i - 3) + 2 >= IN_BUFF_SIZE
    \/ i >= 3 /\ (i - 3) \div 3 >= DEC_MESSAGE_SIZE

dec_dev_write(buf, outcome, relay, src) ==
    LET len == DecClamp(Len(buf))
        t == ForceTerminator(CopyFromUser(dec_temp, buf, len), len)
        i == DecScan(t)
        m0 == OobStore(dec_message, DEC_MESSAGE_SIZE, len, outcome)
    IN  /\ DecodeLoaded
        /\ dec_temp' = t
        /\ dec_message' = DecMessage(m0, t, i)
        /\ dec_messageSize' = DecSize(i)
        /\ decW' = [written |-> TRUE, buf |-> buf, oob |-> DecOutOfBounds(len, i),
                    left |-> DecSize(i), reads |-> 0, relay |-> relay, src |-> src]
        /\ decR' = NoRead
        /\ UNCHANGED <<enc_temp, enc_message, enc_messageSize, encW, encR>>
        /\ UNCHANGED conc

(***************************************************************************)
(* dev_read, the same code in both files.                                  *)
(***************************************************************************)
\* error_count of copy_to_user: a copy of zero bytes cannot fail
CopyOutcomes(messageSize) == IF messageSize = 0 THEN {TRUE} ELSE {TRUE, FALSE}

\* the value dev_read returns: sendLength, or -EFAULT
ReadReturn(ok, sendLength) == IF ok THEN sendLength ELSE -EFAULT

\* messageSize=0, and the same with the store left out
ReadKeep(messageSize) == messageSize
ReadClear(messageSize) == 0

ReadCount(w) == Min(w.reads + 1, 2)

enc_dev_read(ok) ==
    LET sendLength == enc_messageSize
    IN  /\ EncodeLoaded
        /\ ok \in CopyOutcomes(enc_messageSize)
        /\ enc_messageSize' = ReadClear(enc_messageSize)
        /\ encR' = [done |-> TRUE, ok |-> ok,
                    ret |-> ReadReturn(ok, sendLength),
                    data |-> IF ok THEN Prefix(enc_message, enc_messageSize) ELSE <<>>]
        /\ encW' = [encW EXCEPT !.reads = ReadCount(encW)]
        /\ UNCHANGED <<enc_temp, enc_message, dec_temp, dec_message, dec_messageSize,
                       decW, decR>>
        /\ UNCHANGED conc

dec_dev_read(ok) ==
    LET sendLength == dec_messageSize
    IN  /\ DecodeLoaded
        /\ ok \in CopyOutcomes(dec_messageSize)
        /\ dec_messageSize' = ReadClear(dec_messageSize)
        /\ decR' = [done |-> TRUE, ok |-> ok,
                    ret |-> ReadReturn(ok, sendLength),
                    data |-> IF ok THEN Prefix(dec_message, dec_messageSize) ELSE <<>>]
        /\ decW' = [decW EXCEPT !.reads = ReadCount(decW)]
        /\ UNCHANGED <<enc_temp, enc_message, enc_messageSize, dec_temp, dec_message,
                       encW, encR>>
        /\ UNCHANGED conc

(***************************************************************************)
(* The state after module load: static storage is zeroed.                  *)
(***************************************************************************)
Callers == {1, 2}
Idle == [p \in Callers |-> "idle"]
Locals == [len |-> 0, i |-> 0, data |-> <<>>, sendLength |-> 0]
NoLocals == [p \in Callers |-> Locals]

InitDevices ==
    /\ enc_temp = <<>>
    /\ enc_message = <<>>
    /\ enc_messageSize = 0
    /\ dec_temp = <<>>
    /\ dec_message = <<>>
    /\ dec_messageSize = 0
    /\ encW = [written |-> FALSE, buf |-> <<>>, oob |-> FALSE, left |-> 0, reads |-> 0]
    /\ encR = NoRead
    /\ decW = [written |-> FALSE, buf |-> <<>>, oob |-> FALSE, left |-> 0, reads |-> 0,
               relay |-> FALSE, src |-> <<>>]
    /\ decR = NoRead
    /\ pc = Idle
    /\ loc = NoLocals
    /\ overlap = FALSE

(***************************************************************************)
(* Inputs.                                                                 *)
(***************************************************************************)
PayloadBytes == {65, 66}

SeqsUpTo(S, n) == UNION {[1..k -> S] : k \in 0..n}

\* payloads without a zero byte, the empty one included
Payloads == SeqsUpTo(PayloadBytes, MaxPayload)

EncInputs == Payloads

\* every byte of x three times in a row: the wire format of the link
Triple(x) == [k \in 1..(3 * Len(x)) |-> x[(k - 1) \div 3 + 1]]

\* the bits of mask flipped in the byte at position pos (from 1) of s
Corrupt(s, pos, mask) == [s EXCEPT ![pos] = BitXor(s[pos], mask)]

\* flipped bits: the low two (0x41 <-> 0x42), all of 0x41 (0x41 -> 0x00)
Masks == {3, 65}

Corruptions(s) == {Corrupt(s, pos, mask) : pos \in 1..Len(s), mask \in Masks}

Prefixes(s) == {SubSeq(s, 1, n) : n \in 0..Len(s)}

\* the payload 0x41, 0x42, 0x43, ... of n bytes
Canon(n) == [k \in 1..n |-> 64 + k]

\* what a receiver may be handed: a triplicated payload, whole or cut short,
\* with or without the terminator; a triplicated byte with one copy
\* corrupted; two messages separated by a terminator
DecWires == UNION {Prefixes(Triple(Canon(n)) \o <<0>>) : n \in 1..MaxPayload}
DecCorrupted == Corruptions(Triple(Canon(1)))
DecJoined == {Triple(<<65>>) \o <<0>> \o Triple(<<66>>)}

DecInputs == DecWires \cup DecCorrupted \cup DecJoined

(***************************************************************************)
(* One host with one of the two modules loaded; callers write and read in  *)
(* any order.                                                              *)
(***************************************************************************)
Init ==
    /\ InitDevices
    /\ loaded \in {"encode", "decode"}

EncWrite == \E buf \in EncInputs : \E o \in Outcomes(buf) : enc_dev_write(buf, o)

EncRead == \E ok \in BOOLEAN : enc_dev_read(ok)

DecWrite == \E buf \in DecInputs : \E o \in Outcomes(buf) : dec_dev_write(buf, o, FALSE, <<>>)

DecRead == \E ok \in BOOLEAN : dec_dev_read(ok)

Next == EncWrite \/ EncRead \/ DecWrite \/ DecRead

Spec == Init /\ [][Next]_vars

(***************************************************************************)
(* The link: a producer writes payloads to the encoder and reads the       *)
(* result; what it read is carried to the decoder, whose result a consumer *)
(* reads.                                                                  *)
(***************************************************************************)
LinkPayloads == SeqsUpTo(PayloadBytes, MaxLink)

InitLink ==
    /\ InitDevices
    /\ loaded = "both"

LinkEncWrite == \E buf \in LinkPayloads : \E o \in Outcomes(buf) : enc_dev_write(buf, o)

\* the bytes the producer read back from its last write, written to the decoder
LinkRelay ==
    /\ encW.written /\ encW.reads = 1 /\ encR.ok
    /\ \E o \in Outcomes(encR.data) : dec_dev_write(encR.data, o, TRUE, encW.buf)

NextLink == LinkEncWrite \/ EncRead \/ LinkRelay \/ DecRead

SpecLink == InitLink /\ [][NextLink]_vars

(***************************************************************************)
(* Writes at the length bounds: buffers of exactly the bound and one past  *)
(* it, mixed with short ones.                                              *)
(***************************************************************************)
EncLong == {Fill(b, ENC_TEMP_SIZE + d) : b \in PayloadBytes, d \in {0, 1}}
DecLong == {Fill(b, IN_BUFF_SIZE + d) : b \in PayloadBytes, d \in {0, 1}}
Short == SeqsUpTo({65}, MaxPayload)

MaxEncWrite == \E buf \in EncLong \cup Short : \E o \in Outcomes(buf) : enc_dev_write(buf, o)

MaxDecWrite ==
    \E buf \in DecLong \cup {Triple(x) : x \in Short} : \E o \in Outcomes(buf) :
        dec_dev_write(buf, o, FALSE, <<>>)

NextMax == MaxEncWrite \/ EncRead \/ MaxDecWrite \/ DecRead

SpecMax == Init /\ [][NextMax]_vars

(***************************************************************************)
(* Two callers on the encoder at once.  Nothing in encode.c serialises     *)
(* dev_write and dev_read, so the statements of two calls interleave; each *)
(* action below is one statement (or one loop iteration) of one call.  The *)
(* copies to and from user space succeed here.                             *)
(***************************************************************************)
ConcInputs == {Canon(n) : n \in 1..MaxConc}

Other(p) == CHOOSE q \in Callers : q # p

Begins(p) == overlap' = (overlap \/ pc[Other(p)] # "idle")

Goto(p, label) == pc' = [pc EXCEPT ![p] = label]

Return(p) == pc' = [pc EXCEPT ![p] = "idle"] /\ loc' = [loc EXCEPT ![p] = Locals]

\* message[3*i+2]=message[3*i+1]=message[3*i]=b
StoreTriple(message, i, b) == Store(Store(Store(message, 3 * i, b), 3 * i + 1, b), 3 * i + 2, b)

\* encode.c:151-154: clamp len and copy the user's bytes into temp
WriteCopy(p) ==
    /\ pc[p] = "idle"
    /\ \E buf \in ConcInputs :
          /\ enc_temp' = Trim(CopyFromUser(enc_temp, buf, EncClamp(Len(buf))))
          /\ loc' = [loc EXCEPT ![p] = [Locals EXCEPT !.len = EncClamp(Len(buf))]]
    /\ Goto(p, "w_term")
    /\ Begins(p)
    /\ encR' = NoRead
    /\ UNCHANGED <<enc_message, enc_messageSize, dec_temp, dec_message, dec_messageSize,
                   encW, decW, decR, loaded>>

\* encode.c:155-156: temp[len-1]='\0'; i=0
WriteTerm(p) ==
    /\ pc[p] = "w_term"
    /\ enc_temp' = ForceTerminator(enc_temp, loc[p].len)
    /\ loc' = [loc EXCEPT ![p].i = 0]
    /\ Goto(p, "w_loop")
    /\ UNCHANGED <<enc_message, enc_messageSize, dec_temp, dec_message, dec_messageSize,
                   encW, encR, decW, decR, loaded, overlap>>

\* encode.c:158-161: one test of while(temp[i]) and, when it holds, one
\* iteration of the loop
WriteLoop(p) ==
    /\ pc[p] = "w_loop"
    /\ IF loc[p].i < ENC_TEMP_SIZE /\ At(enc_temp, loc[p].i) # 0
       THEN /\ enc_message' = StoreTriple(enc_message, loc[p].i, At(enc_temp, loc[p].i))
            /\ loc' = [loc EXCEPT ![p].i = loc[p].i + 1]
            /\ UNCHANGED pc
       ELSE /\ Goto(p, "w_end")
            /\ UNCHANGED <<enc_message, loc>>
    /\ UNCHANGED <<enc_temp, enc_messageSize, dec_temp, dec_message, dec_messageSize,
                   encW, encR, decW, decR, loaded, overlap>>

\* encode.c:162: message[3*i]='\0'
WriteEnd(p) ==
    /\ pc[p] = "w_end"
    /\ enc_message' = Store(enc_message, 3 * loc[p].i, 0)
    /\ Goto(p, "w_size")
    /\ UNCHANGED <<enc_temp, enc_messageSize, dec_temp, dec_message, dec_messageSize,
                   encW, encR, decW, decR, loaded, loc, overlap>>

\* encode.c:163-165: messageSize=i*3+1; return
WriteSize(p) ==
    /\ pc[p] = "w_size"
    /\ enc_messageSize' = EncSize(loc[p].i)
    /\ Return(p)
    /\ UNCHANGED <<enc_temp, enc_message, dec_temp, dec_message, dec_messageSize,
                   encW, encR, decW, decR, loaded, overlap>>

\* encode.c:128: copy_to_user(buffer, message, messageSize)
ReadCopy(p) ==
    /\ pc[p] = "idle"
    /\ loc' = [loc EXCEPT ![p] = [Locals EXCEPT !.data = Prefix(enc_message, enc_messageSize)]]
    /\ Goto(p, "r_len")
    /\ Begins(p)
    /\ UNCHANGED <<enc_temp, enc_message, enc_messageSize, dec_temp, dec_message,
                   dec_messageSize, encW, encR, decW, decR, loaded>>

\* encode.c:129: sendLength=messageSize
ReadLength(p) ==
    /\ pc[p] = "r_len"
    /\ loc' = [loc EXCEPT ![p].sendLength = enc_messageSize]
    /\ Goto(p, "r_clear")
    /\ UNCHANGED <<enc_temp, enc_message, enc_messageSize, dec_temp, dec_message,
                   dec_messageSize, encW, encR, decW, decR, loaded, overlap>>

\* encode.c:130-133: messageSize=0; return sendLength
ReadReturns(p) ==
    /\ pc[p] = "r_clear"
    /\ enc_messageSize' = ReadClear(enc_messageSize)
    /\ encR' = [done |-> TRUE, ok |-> TRUE, ret |-> ReadReturn(TRUE, loc[p].sendLength),
                data |-> loc[p].data]
    /\ Return(p)
    /\ UNCHANGED <<enc_temp, enc_message, dec_temp, dec_message, dec_messageSize,
                   encW, decW, decR, loaded, overlap>>

InitConc ==
    /\ InitDevices
    /\ loaded = "encode"

NextConc ==
    \E p \in Callers :
        \/ WriteCopy(p) \/ WriteTerm(p) \/ WriteLoop(p) \/ WriteEnd(p) \/ WriteSize(p)
        \/ ReadCopy(p) \/ ReadLength(p) \/ ReadReturns(p)

SpecConc == InitConc /\ [][NextConc]_vars

(***************************************************************************)
(* Properties.  JustWritten, the pending results and the reference results *)
(* below are used by the numbered properties that follow.                  *)
(***************************************************************************)
\* the pending result of each device: the bytes the next dev_read hands out
EncPending == Prefix(enc_message, enc_messageSize)
DecPending == Prefix(dec_message, dec_messageSize)

\* the last call on the device was a dev_write
JustWritten(W) == W.written /\ W.reads = 0

\* the pending result a write of buf leaves on a device that was never
\* written before
EncFresh(buf) ==
    LET len == EncClamp(Len(buf))
        t == ForceTerminator(CopyFromUser(<<>>, buf, len), len)
        i == EncScan(t)
    IN  Prefix(EncMessage(<<>>, t, i), EncSize(i))

DecFresh(buf) ==
    LET len == DecClamp(Len(buf))
        t == ForceTerminator(CopyFromUser(<<>>, buf, len), len)
        i == DecScan(t)
    IN  Prefix(DecMessage(<<>>, t, i), DecSize(i))

\* the number of complete triplets of buf before the first zero byte at a
\* triplet start, counting from triplet j
RECURSIVE Triplets(_, _)
Triplets(buf, j) ==
    IF 3 * j + 3 > Len(buf) THEN j
    ELSE IF buf[3 * j + 1] = 0 THEN j
    ELSE Triplets(buf, j + 1)

\* C1: round trip.  A payload of 1..256 nonzero bytes written to the
\* encoder, read back, written to the decoder and read back comes out
\* unchanged: same length, same bytes.
C1_RoundTrip ==
    (decW.written /\ decW.relay /\ decW.reads = 1 /\ decR.ok
        /\ Len(decW.src) >= 1 /\ Len(decW.src) <= ENC_TEMP_SIZE /\ NoZero(decW.src))
    => (decR.ret = Len(decW.src) /\ decR.data = decW.src)

\* C2: single-copy corruption.  When the decoder is written the
\* triplication of a nonzero payload x with any bits of exactly one copy
\* flipped, its pending result is x.
C2_SingleCopyTolerance ==
    JustWritten(decW) =>
        \A n \in 1..MaxPayload :
            \A pos \in 1..(3 * n), mask \in Masks :
                decW.buf = Corrupt(Triple(Canon(n)), pos, mask) => DecPending = Canon(n)

\* C3: encoder contract.  After a write of L nonzero bytes, 1 <= L <= 256,
\* the pending result is every input byte three times in a row followed
\* by one zero byte, 3*L + 1 bytes in all.
C3_EncoderTriplicates ==
    (JustWritten(encW) /\ Len(encW.buf) >= 1 /\ Len(encW.buf) <= ENC_TEMP_SIZE
        /\ NoZero(encW.buf))
    => (enc_messageSize = 3 * Len(encW.buf) + 1
        /\ EncPending = Triple(encW.buf) \o <<0>>)

\* C4: decoder contract.  After a write of 1..769 bytes every byte j of the
\* pending result is the bitwise majority of the three bytes the caller
\* supplied at positions 3j, 3j+1, 3j+2.
C4_DecoderMajority ==
    (JustWritten(decW) /\ Len(decW.buf) >= 1 /\ Len(decW.buf) <= IN_BUFF_SIZE)
    => \A j \in 0..(dec_messageSize - 1) :
          /\ 3 * j + 3 <= Len(decW.buf)
          /\ At(dec_message, j) = Majority(decW.buf[3 * j + 1], decW.buf[3 * j + 2],
                                           decW.buf[3 * j + 3])

\* C5: decoder scan extent.  messageSize is the number of complete triplets
\* of the received bytes before the first zero at a triplet start; when the
\* received length is not a multiple of 3 the loop (whose last test reads
\* temp[3*messageSize]) reads no byte at or beyond the received length.
C5_DecoderScanExtent ==
    JustWritten(decW) =>
        /\ dec_messageSize = Triplets(decW.buf, 0)
        /\ Len(decW.buf) % 3 # 0 => 3 * dec_messageSize < DecClamp(Len(decW.buf))

\* what a device's last read observed, against the write before it
ReadConsumes(W, R, message, messageSize) ==
    /\ W.reads >= 1 => R.done /\ messageSize = 0
    /\ (W.written /\ W.reads = 1 /\ R.ok)
          => (R.ret = W.left /\ R.data = Prefix(message, W.left))
    /\ (W.written /\ W.reads = 1 /\ ~R.ok) => R.ret = -EFAULT
    /\ (~W.written /\ W.reads >= 1) => (R.ret = 0 /\ R.data = <<>>)
    /\ W.reads = 2 => (R.ret = 0 /\ R.data = <<>>)

C7_WriteDependsOnInputOnly ==
    /\ JustWritten(encW) => EncPending = EncFresh(encW.buf)
    /\ JustWritten(decW) => DecPending = DecFresh(decW.buf)

\* C8: empty input.  A write of length 0 leaves messageSize at 0 and uses
\* no index outside temp or message.
C8_EmptyWrite ==
    /\ (JustWritten(encW) /\ Len(encW.buf) = 0) => (enc_messageSize = 0 /\ ~encW.oob)
    /\ (JustWritten(decW) /\ Len(decW.buf) = 0) => (dec_messageSize = 0 /\ ~decW.oob)

\* C9: maximum length.  An encoder write of exactly 256 nonzero bytes
\* leaves 769 pending bytes, the last of them the terminator, and uses no
\* index outside temp or message.
C9_MaxLengthWrite ==
    (JustWritten(encW) /\ Len(encW.buf) = ENC_TEMP_SIZE /\ NoZero(encW.buf))
    => (enc_messageSize = 3 * ENC_TEMP_SIZE + 1
        /\ EncPending = Triple(encW.buf) \o <<0>>
        /\ ~encW.oob)

\* what one encoder write of x, running alone, leaves to be read: the
\* triplication of all bytes but the last, which the forced terminator
\* replaced, and the terminator
WrittenAlone(x) == Triple(SubSeq(x, 1, Len(x) - 1)) \o <<0>>

\* the read returned nothing, or the whole result of one write
Complete(R) ==
    \/ R.ret = 0 /\ R.data = <<>>
    \/ \E x \in ConcInputs : R.ret = Len(WrittenAlone(x)) /\ R.data = WrittenAlone(x)

\* C10: the shared buffers are unsafe under concurrent access.  A read that
\* returns a length or bytes that are not the whole result of any one
\* write happens, and it happens only when calls have overlapped.
C10_TornReadNeedsOverlap == (encR.done /\ ~Complete(encR)) => overlap

\* two calls overlapped, both have returned, and the read returned what no
\* single write produces
C10_Witness == encR.done /\ ~Complete(encR) /\ overlap /\ pc = Idle

(***************************************************************************)
(* What the code does, where it differs from the numbered properties.      *)
(***************************************************************************)
\* an encoder write of 1..256 nonzero bytes leaves the triplication of all
\* bytes but the last, and the terminator
EncWritesAllButLast ==
    (JustWritten(encW) /\ Len(encW.buf) >= 1 /\ NoZero(encW.buf))
    => EncPending = WrittenAlone(SubSeq(encW.buf, 1, EncClamp(Len(encW.buf))))

\* every byte the decoder stores is the majority of the three bytes of temp
\* it was computed from: the four-term expression equals the majority
DecVotesOnTemp ==
    JustWritten(decW) =>
        \A j \in 0..(dec_messageSize - 1) :
            At(dec_message, j) = Majority(At(dec_temp, 3 * j), At(dec_temp, 3 * j + 1),
                                          At(dec_temp, 3 * j + 2))

\* only a write of length 0 uses an index outside its arrays, and the
\* lengths stay within the arrays
BoundsRespected ==
    /\ encW.oob => Len(encW.buf) = 0
    /\ decW.oob => Len(decW.buf) = 0
    /\ Len(enc_temp) < ENC_TEMP_SIZE /\ Len(enc_message) < ENC_MESSAGE_SIZE
    /\ Len(dec_temp) < IN_BUFF_SIZE /\ Len(dec_message) <= DEC_MESSAGE_SIZE
    /\ enc_messageSize <= ENC_MESSAGE_SIZE /\ dec_messageSize <= DEC_MESSAGE_SIZE

====
